---- MODULE Spec2Model ----
(***************************************************************************)
(* Water Kiosk Hardware Server (src/water_kiosk_hardware_server.py).       *)
(*                                                                         *)
(* The server is stateless: one request is in flight per worker.  The      *)
(* model handles one request at a time.  Text whose characters the code    *)
(* inspects (phone numbers, filters, URLs) is a sequence of tokens; other  *)
(* JSON values are tagged records [t, v] so that Python's == between a     *)
(* string and a number is false, as it is in the code.                     *)
(***************************************************************************)
EXTENDS Integers, Sequences, FiniteSets, TLC

VARIABLES
    endpoint,   \* APPWRITE_ENDPOINT, read once at start-up
    stored,     \* phone_number values that have a document in the customers collection
    pc,         \* "idle" | "lookup" | "done"
    route,      \* the route of the request in flight
    req,        \* the JSON body of the request in flight
    variants,   \* phone_variants of the running lookup
    idx,        \* position of the lookup loop in phone_variants (1-based)
    calls,      \* the backend calls made for the request in flight, in order
    draw,       \* the value random.random() returned for the request, in tenths; -1: none
    resp        \* the HTTP response of the request in flight

vars == <<endpoint, stored, pc, route, req, variants, idx, calls, draw, resp>>

----------------------------------------------------------------------------
(* Bounds of the model *)

\* documents a backend listing returns at most
MaxDocs == 2
\* filters in the queries[] of a /database/query request at most
MaxFilters == 2

----------------------------------------------------------------------------
(* Configuration *)

APPWRITE_DATABASE_ID == "6864aed388d20c69a461"
CUSTOMERS_COLLECTION_ID == "customers"
Host == "http://192.168.1.126"
DefaultEndpoint == <<Host, "/v1">>
\* the environment may set any endpoint; one with and one without the version segment
Endpoints == {DefaultEndpoint, <<Host>>}

\* random.random() < 0.9, in tenths
FallbackThreshold == 9
\* the draws of the model, in tenths: 0.0, 0.5, just below 0.9, and 0.9 or more
Draws == {0, 5, 8, 9}

----------------------------------------------------------------------------
(* Python string operations on token sequences *)

startswith(s, p) == Len(s) >= Len(p) /\ SubSeq(s, 1, Len(p)) = p

RECURSIVE replace(_, _, _)
\* str.replace: every non-overlapping occurrence, left to right
replace(s, old, new) ==
    IF Len(s) = 0 THEN <<>>
    ELSE IF startswith(s, old)
         THEN new \o replace(SubSeq(s, Len(old) + 1, Len(s)), old, new)
         ELSE <<Head(s)>> \o replace(Tail(s), old, new)

RECURSIVE lstrip(_, _)
lstrip(s, c) == IF Len(s) > 0 /\ Head(s) = c THEN lstrip(Tail(s), c) ELSE s

\* urllib.parse.quote with the default safe='/': letters, digits and _.-~/ are kept
quote_char(c) ==
    CASE c = "(" -> "%28"
      [] c = ")" -> "%29"
      [] c = "\"" -> "%22"
      [] c = "," -> "%2C"
      [] c = "+" -> "%2B"
      [] OTHER -> c

quote(s) == [i \in 1 .. Len(s) |-> quote_char(s[i])]

----------------------------------------------------------------------------
(* Phone numbers *)

PLUS254 == <<"+", "2", "5", "4">>
\* the national digits of the one customer number of the model (shortened)
National == <<"7", "1">>

\* the textual encodings of the number with national digits x
Encodings(x) == {PLUS254 \o x, <<"2", "5", "4">> \o x, <<"0">> \o x, x}

\* the fifth candidate
phone_variants_last(p) ==
    IF ~startswith(p, <<"+">>) THEN PLUS254 \o lstrip(p, "0") ELSE p

phone_variants(p) ==
    << p,
       replace(p, PLUS254, <<"0">>),
       replace(p, PLUS254, <<"2", "5", "4">>),
       replace(p, PLUS254, <<>>),
       phone_variants_last(p) >>

----------------------------------------------------------------------------
(* JSON values *)

Absent == [t |-> "absent", v |-> ""]
JStr(s) == [t |-> "str", v |-> s]
JInt(s) == [t |-> "int", v |-> s]

AbsentPhone == [t |-> "absent", v |-> <<>>]
StrPhone(s) == [t |-> "str", v |-> s]
IntPhone(s) == [t |-> "int", v |-> s]

\* Python truthiness of a dict.get() result; the numbers of the model are non-zero
truthy(x) == x.t = "int" \/ (x.t = "str" /\ x.v # "")
truthy_phone(x) == x.t = "int" \/ (x.t = "str" /\ x.v # <<>>)

\* dict.get(key) of a string-valued field: None when the key is absent
get(v) == IF v = "absent" THEN "null" ELSE v
\* dict.get(key, default)
get_default(v, d) == IF v = "absent" THEN d ELSE v

----------------------------------------------------------------------------
(* The customers collection, as the backend answers for it *)

\* the documents the backend may hold under phone_number p; every customer of the
\* model has pin "1234", and the requests vary the claimed pin
Docs(p) ==
    { [phone_number |-> p, pin |-> JStr("1234"), is_registered |-> r, active |-> a,
       account_id |-> "A1", full_name |-> "N1", credits |-> "5"] :
        r \in {"true", "false", "absent"}, a \in {"true", "false"} }
    \cup
    { [phone_number |-> p, pin |-> JStr("1234"), is_registered |-> "true",
       active |-> "true", account_id |-> "absent", full_name |-> "absent",
       credits |-> "absent"] }

RECURSIVE SeqsUpTo(_, _)
\* the sequences over S of length 1 .. n
SeqsUpTo(S, n) ==
    IF n = 0 THEN {}
    ELSE {<<x>> : x \in S}
         \cup {Append(s, x) : s \in SeqsUpTo(S, n - 1), x \in S}

\* the document lists a successful query for equal("phone_number", v) may return
BackendDocuments(v) ==
    IF v \in stored THEN SeqsUpTo(Docs(v), MaxDocs) ELSE {<<>>}

\* the ways a backend call raises: URLError, timeout, HTTPError, JSONDecodeError
FailKinds == {"connection", "timeout", "status", "json"}

----------------------------------------------------------------------------
(* Responses *)

NoPayload == [kind |-> "none", id |-> "absent", total |-> "absent"]

\* keys: the keys of the JSON body; a field whose key is not in keys is not sent
NoResp ==
    [status |-> 0, keys |-> {}, approved |-> FALSE, reason |-> "",
     user_data |-> {}, success |-> FALSE, request_id |-> "null",
     data |-> NoPayload, unhandled |-> FALSE]

DecisionKeys ==
    {"type", "user_id", "pin", "volume_ml", "approved", "reason", "timestamp", "kiosk_id"}

\* lines 119-141: user_data is attached when it is truthy
dispense_response(approved, reason, user_data) ==
    [NoResp EXCEPT !.status = 200,
                   !.keys = DecisionKeys \cup (IF user_data # {} THEN {"user_data"} ELSE {}),
                   !.approved = approved,
                   !.reason = reason,
                   !.user_data = user_data]

\* lines 59-60
no_json_response == [NoResp EXCEPT !.status = 400, !.keys = {"error"}]

\* lines 71-76
invalid_format_response ==
    [NoResp EXCEPT !.status = 400, !.keys = {"error", "approved", "reason"},
                   !.approved = FALSE, !.reason = "Invalid request format"]

\* lines 143-151
server_error_response ==
    [NoResp EXCEPT !.status = 500,
                   !.keys = {"error", "type", "approved", "reason", "timestamp"},
                   !.approved = FALSE, !.reason = "Server error occurred"]

\* fallback_response with the comparison made inclusive
fallback_response_inclusive(d) ==
    IF d <= FallbackThreshold
    THEN dispense_response(TRUE, "Database unavailable - approved by fallback (90% chance)", {})
    ELSE dispense_response(FALSE, "Database unavailable - denied by fallback (10% chance)", {})

\* lines 110-117
fallback_response(d) ==
    IF d < FallbackThreshold
    THEN dispense_response(TRUE, "Database unavailable - approved by fallback (90% chance)", {})
    ELSE dispense_response(FALSE, "Database unavailable - denied by fallback (10% chance)", {})

----------------------------------------------------------------------------
(* lookup_customer_by_phone *)

\* customer.get('pin') == pin; the claimed pin is truthy, so None never equals it
pin_match(customer, pin) == customer.pin.t # "absent" /\ customer.pin = pin

\* customer_data echoing the stored pin as well
customer_data_with_pin(customer) ==
    [phone_number |-> customer.phone_number,
     account_id |-> get(customer.account_id),
     full_name |-> get(customer.full_name),
     active |-> get(customer.active),
     credits |-> get_default(customer.credits, "0"),
     pin |-> customer.pin.v]

\* lines 384-390
customer_data(customer) ==
    [phone_number |-> customer.phone_number,
     account_id |-> get(customer.account_id),
     full_name |-> get(customer.full_name),
     active |-> get(customer.active),
     credits |-> get_default(customer.credits, "0")]

\* lines 371-391: the result built from documents[0]
lookup_found(documents, pin) ==
    LET customer == documents[1] IN
    [found |-> TRUE,
     valid_pin |-> pin_match(customer, pin),
     is_registered |-> get(customer.is_registered) = "true",
     active |-> get(customer.active) = "true",
     customer_data |-> {customer_data(customer)}]

\* lines 393-399
lookup_not_found ==
    [found |-> FALSE, valid_pin |-> FALSE, is_registered |-> FALSE, active |-> FALSE,
     customer_data |-> {}]

\* decision with the PIN checked before the registration and subscription flags
decision_pin_first(user_lookup) ==
    IF user_lookup.found
    THEN IF ~user_lookup.valid_pin
         THEN dispense_response(FALSE, "Invalid PIN", {})
         ELSE IF ~user_lookup.is_registered
         THEN dispense_response(FALSE, "Customer not fully registered", {})
         ELSE IF ~user_lookup.active
         THEN dispense_response(FALSE, "Subscription inactive", {})
         ELSE dispense_response(TRUE, "Customer verified in database",
                                user_lookup.customer_data)
    ELSE dispense_response(FALSE, "Customer not found in database", {})

\* lines 87-108
decision(user_lookup) ==
    IF user_lookup.found
    THEN IF ~user_lookup.is_registered
         THEN dispense_response(FALSE, "Customer not fully registered", {})
         ELSE IF ~user_lookup.active
         THEN dispense_response(FALSE, "Subscription inactive", {})
         ELSE IF ~user_lookup.valid_pin
         THEN dispense_response(FALSE, "Invalid PIN", {})
         ELSE dispense_response(TRUE, "Customer verified in database",
                                user_lookup.customer_data)
    ELSE dispense_response(FALSE, "Customer not found in database", {})

lookup_filter(variant) ==
    <<"equal", "(", "\"", "phone_number", "\"", ",", "\"">> \o variant \o <<"\"", ")">>

\* line 359
lookup_url(variant) ==
    endpoint \o <<"/databases/", APPWRITE_DATABASE_ID, "/collections/",
                  CUSTOMERS_COLLECTION_ID, "/documents", "?", "queries[]=">>
             \o quote(lookup_filter(variant))

\* a backend call: what was requested, how it ended ("ok" or a member of
\* FailKinds) and the JSON it returned (the documents of a listing, or a payload)
Call(method, url, variant, outcome, documents, payload) ==
    [method |-> method, url |-> url, variant |-> variant, outcome |-> outcome,
     documents |-> documents, payload |-> payload]

----------------------------------------------------------------------------
(* POST /dispense-verification *)

ClaimedPhones == Encodings(National)
ClaimedPins == {JStr("1234"), JStr("0000"), JInt("1234")}

\* request bodies: "malformed" makes get_json() raise; "null" is a falsy JSON value
\* that is no object (null, [], 0, ""); "empty" is the JSON object {}; "list" is a
\* non-empty JSON array; "object" is a JSON object that holds volume_ml and those
\* of kiosk_id, user_id and pin that are not absent
DispenseBodies ==
    { [kind |-> k, kiosk_id |-> Absent, user_id |-> AbsentPhone, pin |-> Absent] :
        k \in {"malformed", "null", "empty", "list"} }
    \cup
    { [kind |-> "object", kiosk_id |-> k, user_id |-> u, pin |-> p] :
        k \in {Absent, JStr(""), JStr("K1")},
        u \in {AbsentPhone, StrPhone(<<>>), IntPhone(National)}
              \cup {StrPhone(e) : e \in ClaimedPhones},
        p \in {Absent} \cup ClaimedPins }

\* `not data` for a parsed body
falsy_body(body) == body.kind \in {"null", "empty"}

\* lines 56-76: the responses given before any lookup; NoResp when the lookup runs
dispense_early(body) ==
    IF body.kind = "malformed" THEN server_error_response
    ELSE IF falsy_body(body) THEN no_json_response
    ELSE IF body.kind = "list" THEN server_error_response
    ELSE IF ~(truthy(body.kiosk_id) /\ truthy_phone(body.user_id) /\ truthy(body.pin))
    THEN invalid_format_response
    ELSE NoResp

\* the request is answered without a lookup
DispenseRejected(body) ==
    /\ pc = "idle"
    /\ dispense_early(body) # NoResp
    /\ route' = "dispense"
    /\ req' = body
    /\ resp' = dispense_early(body)
    /\ pc' = "done"
    /\ UNCHANGED <<endpoint, stored, variants, idx, calls, draw>>

\* lines 345-355: phone_number.replace raises for a user_id that is no string; the
\* except of line 401 re-raises and the except of line 110 draws the fallback
DispenseLookupRaises(body, d) ==
    /\ pc = "idle"
    /\ dispense_early(body) = NoResp
    /\ body.user_id.t # "str"
    /\ route' = "dispense"
    /\ req' = body
    /\ draw' = d
    /\ resp' = fallback_response(d)
    /\ pc' = "done"
    /\ UNCHANGED <<endpoint, stored, variants, idx, calls>>

\* lines 85, 349-355: the lookup starts with the candidate list
DispenseLookupStarts(body) ==
    /\ pc = "idle"
    /\ dispense_early(body) = NoResp
    /\ body.user_id.t = "str"
    /\ route' = "dispense"
    /\ req' = body
    /\ variants' = phone_variants(body.user_id.v)
    /\ idx' = 1
    /\ pc' = "lookup"
    /\ UNCHANGED <<endpoint, stored, calls, draw, resp>>

\* lines 357-369 raise: one query of the loop fails; lines 110-117 draw the fallback
LookupQueryFails(kind, d) ==
    /\ pc = "lookup"
    /\ calls' = Append(calls, Call("GET", lookup_url(variants[idx]), variants[idx], kind,
                                   <<>>, NoPayload))
    /\ draw' = d
    /\ resp' = fallback_response(d)
    /\ pc' = "done"
    /\ UNCHANGED <<endpoint, stored, route, req, variants, idx>>

\* lookup_step without the return inside the loop: a match is used only at the
\* last candidate
lookup_step_no_return(documents) ==
    IF idx < Len(variants) THEN "next"
    ELSE IF Len(documents) > 0 THEN "found"
    ELSE "not_found"

\* lines 371, 357, 393: what the loop does after a query that returned documents
lookup_step(documents) ==
    IF Len(documents) > 0 THEN "found"
    ELSE IF idx < Len(variants) THEN "next"
    ELSE "not_found"

\* lines 357-399: the loop body after a query that succeeded with these documents
LookupQueryAnswered(documents) ==
    /\ calls' = Append(calls, Call("GET", lookup_url(variants[idx]), variants[idx], "ok",
                                   documents, NoPayload))
    /\ CASE lookup_step(documents) = "found" ->
              /\ resp' = decision(lookup_found(documents, req.pin))
              /\ pc' = "done"
              /\ idx' = idx
         [] lookup_step(documents) = "next" ->
              /\ idx' = idx + 1
              /\ UNCHANGED <<resp, pc>>
         [] OTHER ->
              /\ resp' = decision(lookup_not_found)
              /\ pc' = "done"
              /\ idx' = idx
    /\ UNCHANGED <<endpoint, stored, route, req, variants, draw>>

\* lines 357-399: one query of the loop succeeds
LookupQueryReturns ==
    /\ pc = "lookup"
    /\ \E documents \in BackendDocuments(variants[idx]) : LookupQueryAnswered(documents)

----------------------------------------------------------------------------
(* make_appwrite_request and the proxy routes *)

\* a filter of queries[]: a string (its tokens) or a JSON number
StrFilter(f) == [t |-> "str", v |-> f]
IntFilter == [t |-> "int", v |-> <<"5">>]
Filters == {StrFilter(lookup_filter(e)) : e \in {PLUS254 \o National, National}} \cup {IntFilter}

RECURSIVE SeqsFrom0(_, _)
\* the sequences over S of length 0 .. n
SeqsFrom0(S, n) ==
    IF n = 0 THEN {<<>>}
    ELSE SeqsFrom0(S, n - 1) \cup {Append(q, x) : q \in {r \in SeqsFrom0(S, n - 1) : Len(r) = n - 1}, x \in S}

\* proxy request bodies: "malformed" makes get_json() raise, "null" is JSON null,
\* "list" a JSON array, "object" a JSON object with the fields that are not absent
NoFields ==
    [database |-> Absent, collection |-> Absent, queries |-> <<>>,
     document_id |-> Absent, document_data |-> "absent", request_id |-> "null"]

NonObjectBodies ==
    { [kind |-> k, f |-> NoFields] : k \in {"malformed", "null", "list"} }

Databases == {Absent, JStr("db2")}
Collections == {Absent, JStr(""), JStr(CUSTOMERS_COLLECTION_ID)}
RequestIds == {"null", "r1"}
\* document_data: absent, the empty object {} or an object with fields
DocumentData == {"absent", "empty", "data"}

QueryBodies ==
    NonObjectBodies \cup
    { [kind |-> "object",
       f |-> [NoFields EXCEPT !.database = d, !.collection = c, !.queries = q,
                              !.request_id = r]] :
        d \in Databases, c \in Collections, q \in SeqsFrom0(Filters, MaxFilters),
        r \in RequestIds }

CreateBodies ==
    NonObjectBodies \cup
    { [kind |-> "object",
       f |-> [NoFields EXCEPT !.database = d, !.collection = c, !.document_id = i,
                              !.document_data = dd, !.request_id = r]] :
        d \in Databases, c \in Collections, i \in {Absent, JStr("d1")},
        dd \in DocumentData, r \in RequestIds }

UpdateBodies ==
    NonObjectBodies \cup
    { [kind |-> "object",
       f |-> [NoFields EXCEPT !.database = d, !.collection = c, !.document_id = i,
                              !.document_data = dd, !.request_id = r]] :
        d \in Databases, c \in Collections, i \in {Absent, JStr(""), JStr("d1")},
        dd \in DocumentData, r \in RequestIds }

\* the JSON bodies a 2xx backend answer may carry: a document or listing, an object
\* without $id and total, an array
Payloads ==
    { [kind |-> "object", id |-> "d1", total |-> "1"],
      [kind |-> "object", id |-> "absent", total |-> "absent"],
      [kind |-> "array", id |-> "absent", total |-> "absent"] }

\* what one backend call does: it raises (a member of FailKinds) or returns a payload
BackendOutcomes ==
    { [kind |-> k, data |-> NoPayload] : k \in FailKinds }
    \cup { [kind |-> "ok", data |-> d] : d \in Payloads }

EnvelopeKeys == {"type", "request_id", "success", "timestamp"}

\* the 400 and 500 envelopes of the proxy routes
error_envelope(status, request_id) ==
    [NoResp EXCEPT !.status = status, !.keys = EnvelopeKeys \cup {"error"},
                   !.success = FALSE, !.request_id = request_id]

\* the 200 envelope
success_envelope(request_id, data, extra) ==
    [NoResp EXCEPT !.status = 200, !.keys = EnvelopeKeys \cup {"data"} \cup extra,
                   !.success = TRUE, !.request_id = request_id, !.data = data]

\* an exception raised inside an except block leaves the view: Flask answers 500
unhandled_response == [NoResp EXCEPT !.status = 500, !.unhandled = TRUE]

\* the except blocks of lines 194-203, 246-255, 295-304: data is a local once
\* get_json() has returned, and data.get raises again when data is no object
proxy_exception(body) ==
    IF body.kind = "malformed" THEN error_envelope(500, "null")
    ELSE IF body.kind # "object" THEN unhandled_response
    ELSE error_envelope(500, body.f.request_id)

\* data.get('database', APPWRITE_DATABASE_ID)
database_of(body) ==
    IF body.f.database.t = "absent" THEN APPWRITE_DATABASE_ID ELSE body.f.database.v

documents_path(database, collection) ==
    <<"/v1", "/databases/", database, "/collections/", collection, "/documents">>

RECURSIVE query_params(_)
\* line 177: '&'.join of queries[]=<quoted filter>
query_params(queries) ==
    IF Len(queries) = 0 THEN <<>>
    ELSE <<"queries[]=">> \o quote(queries[1].v)
         \o (IF Len(queries) > 1 THEN <<"&">> \o query_params(Tail(queries)) ELSE <<>>)

\* lines 175-178
query_path(database, collection, queries) ==
    documents_path(database, collection)
    \o (IF Len(queries) > 0 THEN <<"?">> \o query_params(queries) ELSE <<>>)

\* line 419
appwrite_url(path) == endpoint \o path

\* the result of a handler: the backend calls it made and its response
Handled(made, response) == [calls |-> made, resp |-> response]

\* lines 156-203
database_query(body, outcome) ==
    IF body.kind # "object" THEN Handled(<<>>, proxy_exception(body))
    ELSE IF ~truthy(body.f.collection)
    THEN Handled(<<>>, error_envelope(400, body.f.request_id))
    ELSE IF \E i \in 1 .. Len(body.f.queries) : body.f.queries[i].t # "str"
    THEN Handled(<<>>, proxy_exception(body))
    ELSE LET url == appwrite_url(query_path(database_of(body), body.f.collection.v,
                                             body.f.queries))
             call == Call("GET", url, <<>>, outcome.kind, <<>>, outcome.data)
         IN  IF outcome.kind # "ok" \/ outcome.data.kind # "object"
             THEN Handled(<<call>>, proxy_exception(body))
             ELSE Handled(<<call>>,
                          success_envelope(body.f.request_id, outcome.data, {"total"}))

\* lines 208-255
database_create(body, outcome) ==
    IF body.kind # "object" THEN Handled(<<>>, proxy_exception(body))
    ELSE IF ~truthy(body.f.collection) \/ body.f.document_data # "data"
    THEN Handled(<<>>, error_envelope(400, body.f.request_id))
    ELSE LET url == appwrite_url(documents_path(database_of(body), body.f.collection.v))
             call == Call("POST", url, <<>>, outcome.kind, <<>>, outcome.data)
         IN  IF outcome.kind # "ok" \/ outcome.data.kind # "object"
                \/ outcome.data.id = "absent"
             THEN Handled(<<call>>, proxy_exception(body))
             ELSE Handled(<<call>>, success_envelope(body.f.request_id, outcome.data, {}))

\* lines 260-304
database_update(body, outcome) ==
    IF body.kind # "object" THEN Handled(<<>>, proxy_exception(body))
    ELSE IF ~(truthy(body.f.collection) /\ truthy(body.f.document_id)
              /\ body.f.document_data = "data")
    THEN Handled(<<>>, error_envelope(400, body.f.request_id))
    ELSE LET url == appwrite_url(documents_path(database_of(body), body.f.collection.v)
                                 \o <<"/", body.f.document_id.v>>)
             call == Call("PATCH", url, <<>>, outcome.kind, <<>>, outcome.data)
         IN  IF outcome.kind # "ok"
             THEN Handled(<<call>>, proxy_exception(body))
             ELSE Handled(<<call>>, success_envelope(body.f.request_id, outcome.data, {}))

Proxy(name, body, handled) ==
    /\ pc = "idle"
    /\ route' = name
    /\ req' = body
    /\ calls' = handled.calls
    /\ resp' = handled.resp
    /\ pc' = "done"
    /\ UNCHANGED <<endpoint, stored, variants, idx, draw>>

\* POST /database/query
DatabaseQuery(body, outcome) == Proxy("query", body, database_query(body, outcome))

\* POST /database/create
DatabaseCreate(body, outcome) == Proxy("create", body, database_create(body, outcome))

\* POST /database/update
DatabaseUpdate(body, outcome) == Proxy("update", body, database_update(body, outcome))

\* the response is sent; the worker takes the next request
Respond ==
    /\ pc = "done"
    /\ pc' = "idle"
    /\ route' = "none"
    /\ req' = [kind |-> "none"]
    /\ variants' = <<>>
    /\ idx' = 0
    /\ calls' = <<>>
    /\ draw' = -1
    /\ resp' = NoResp
    /\ UNCHANGED <<endpoint, stored>>

----------------------------------------------------------------------------

Init ==
    /\ endpoint \in Endpoints
    /\ stored \in SUBSET Encodings(National)
    /\ pc = "idle"
    /\ route = "none"
    /\ req = [kind |-> "none"]
    /\ variants = <<>>
    /\ idx = 0
    /\ calls = <<>>
    /\ draw = -1
    /\ resp = NoResp

Next ==
    \/ \E body \in DispenseBodies : DispenseRejected(body)
    \/ \E body \in DispenseBodies, d \in Draws : DispenseLookupRaises(body, d)
    \/ \E body \in DispenseBodies : DispenseLookupStarts(body)
    \/ \E kind \in FailKinds, d \in Draws : LookupQueryFails(kind, d)
    \/ LookupQueryReturns
    \/ \E body \in QueryBodies, outcome \in BackendOutcomes : DatabaseQuery(body, outcome)
    \/ \E body \in CreateBodies, outcome \in BackendOutcomes : DatabaseCreate(body, outcome)
    \/ \E body \in UpdateBodies, outcome \in BackendOutcomes : DatabaseUpdate(body, outcome)
    \/ Respond

Spec == Init /\ [][Next]_vars

----------------------------------------------------------------------------
(* The claims *)

VerifiedReason == "Customer verified in database"
NotFoundReason == "Customer not found in database"
UnavailableReasons ==
    {"Database unavailable - approved by fallback (90% chance)",
     "Database unavailable - denied by fallback (10% chance)"}

DispenseDone == route = "dispense" /\ pc = "done"
ProxyDone == route \in {"query", "create", "update"} /\ pc = "done"
LastCall == calls[Len(calls)]
\* a backend call of the request failed
CallFailed == \E i \in 1 .. Len(calls) : calls[i].outcome # "ok"
\* the lookup of the request returned: its last query succeeded
LookupCompleted == DispenseDone /\ Len(calls) > 0 /\ LastCall.outcome = "ok"

\* the first applicable rule for a found record, in the order of the claim
RuleReason(record, pin) ==
    IF record.is_registered # "true" THEN "Customer not fully registered"
    ELSE IF record.active # "true" THEN "Subscription inactive"
    ELSE IF record.pin # pin THEN "Invalid PIN"
    ELSE VerifiedReason

\* C1: when the lookup of a dispense request with kiosk_id, user_id and pin
\* completes without a backend failure, the decision is the first applicable rule
\* of: not found, not registered, inactive, invalid PIN, verified; and approval
\* with reason 'Customer verified in database' occurs only for a found record
\* that is registered, active and has the claimed pin.
C1_DecisionOrder ==
    /\ LookupCompleted =>
          /\ resp.status = 200
          /\ resp.reason = IF LastCall.documents = <<>> THEN NotFoundReason
                           ELSE RuleReason(LastCall.documents[1], req.pin)
          /\ resp.approved = (resp.reason = VerifiedReason)
    /\ (DispenseDone /\ resp.approved /\ resp.reason = VerifiedReason) =>
          /\ LookupCompleted
          /\ LastCall.documents # <<>>
          /\ LastCall.documents[1].is_registered = "true"
          /\ LastCall.documents[1].active = "true"
          /\ LastCall.documents[1].pin = req.pin

\* an inactive customer with a wrong claimed pin is told 'Subscription inactive'
C1_Witness ==
    /\ LookupCompleted
    /\ LastCall.documents # <<>>
    /\ LastCall.documents[1].is_registered = "true"
    /\ LastCall.documents[1].active = "false"
    /\ LastCall.documents[1].pin # req.pin
    /\ resp.reason = "Subscription inactive"

\* C2: when a backend call of the customer lookup fails, at whichever position,
\* the dispense route answers 200 with a decision that is approved exactly when
\* the random draw is below 0.9, whose reason says the database was unavailable,
\* and without user_data.
C2_FallbackOnFailure ==
    (DispenseDone /\ CallFailed) =>
        /\ resp.status = 200
        /\ resp.keys = DecisionKeys
        /\ draw \in Draws
        /\ resp.approved = (draw < FallbackThreshold)
        /\ resp.reason = IF draw < FallbackThreshold
                         THEN "Database unavailable - approved by fallback (90% chance)"
                         ELSE "Database unavailable - denied by fallback (10% chance)"
        /\ resp.user_data = {}

\* the third query fails and the draw denies
C2_Witness ==
    /\ DispenseDone
    /\ Len(calls) = 3
    /\ LastCall.outcome = "timeout"
    /\ draw = 9
    /\ ~resp.approved
    /\ resp.reason \in UnavailableReasons

\* C3: the fallback decision (reason 'Database unavailable ...') is produced only
\* when a backend call failed during the lookup, never because of the value or
\* type of user_id or pin; and a lookup whose queries all succeed with zero
\* documents gives the deny 'Customer not found in database'.
C3_FallbackOnlyOnBackendFailure ==
    /\ (DispenseDone /\ resp.reason \in UnavailableReasons) => CallFailed
    /\ (LookupCompleted /\ \A i \in 1 .. Len(calls) : calls[i].documents = <<>>) =>
          (~resp.approved /\ resp.reason = NotFoundReason)

\* C4: the queries of one lookup follow the candidate list in order, the literal
\* input first, one query per position and at most five; only the last query may
\* have failed or returned documents; the decision rests on the first document
\* of that answer.
C4_QueryOrder ==
    (route = "dispense" /\ pc \in {"lookup", "done"} /\ req.user_id.t = "str"
     /\ resp.status \in {0, 200}) =>
        /\ Len(variants) = 5
        /\ variants[1] = req.user_id.v
        /\ Len(calls) <= Len(variants)
        /\ \A i \in 1 .. Len(calls) : calls[i].variant = variants[i]
        /\ \A i \in 1 .. Len(calls) - 1 :
              calls[i].outcome = "ok" /\ calls[i].documents = <<>>
        /\ pc = "lookup" => (Len(calls) = idx - 1 /\ idx <= Len(variants))
        /\ (pc = "done" /\ LastCall.outcome = "ok" /\ LastCall.documents = <<>>) =>
              Len(calls) = Len(variants)
        /\ (pc = "done" /\ LastCall.outcome = "ok" /\ LastCall.documents # <<>>) =>
              /\ resp.reason = RuleReason(LastCall.documents[1], req.pin)
              /\ resp.approved =>
                    \A u \in resp.user_data :
                        u.account_id = get(LastCall.documents[1].account_id)

\* the fifth candidate matches and the answer lists two different documents
C4_Witness ==
    /\ DispenseDone
    /\ Len(calls) = 5
    /\ Len(LastCall.documents) = 2
    /\ LastCall.documents[1].account_id # LastCall.documents[2].account_id
    /\ resp.approved

\* C5: a dispense request whose JSON object lacks kiosk_id, user_id or pin (or
\* holds it empty), the empty object included, is answered 400 with
\* approved=false and reason 'Invalid request format', without a backend call.
C5_InvalidRequestFormat ==
    (DispenseDone /\ req.kind \in {"empty", "object"}
     /\ ~(truthy(req.kiosk_id) /\ truthy_phone(req.user_id) /\ truthy(req.pin))) =>
        /\ resp.status = 400
        /\ "approved" \in resp.keys /\ ~resp.approved
        /\ "reason" \in resp.keys /\ resp.reason = "Invalid request format"
        /\ calls = <<>>

\* the body is a JSON object and the required fields of the route are present and
\* non-empty
ProxyValid ==
    /\ req.kind = "object"
    /\ truthy(req.f.collection)
    /\ route = "create" => req.f.document_data = "data"
    /\ route = "update" => (truthy(req.f.document_id) /\ req.f.document_data = "data")

\* C6: on the proxy routes a client input error (a required field missing, or a
\* body that is absent, null or no JSON object) is answered 400 with
\* success=false and an error, never reaches the backend, and never gives 500 or
\* an unhandled exception.
C6_ClientErrorsAre400 ==
    (ProxyDone /\ ~ProxyValid) =>
        /\ resp.status = 400
        /\ ~resp.unhandled
        /\ "success" \in resp.keys /\ ~resp.success
        /\ "error" \in resp.keys
        /\ calls = <<>>

\* C7: a proxy request that passes validation makes exactly one backend call;
\* when the call succeeded the answer is 200, success=true, the caller's
\* request_id and the payload in data; when it failed the answer is 500,
\* success=false, the caller's request_id and an error; never data and error.
C7_OneCallEnvelope ==
    (ProxyDone /\ ProxyValid) =>
        /\ Len(calls) = 1
        /\ calls[1].outcome = "ok" =>
              /\ resp.status = 200
              /\ resp.success
              /\ resp.request_id = req.f.request_id
              /\ "data" \in resp.keys /\ resp.data = calls[1].payload
        /\ calls[1].outcome # "ok" =>
              /\ resp.status = 500
              /\ ~resp.success
              /\ resp.request_id = req.f.request_id
              /\ "error" \in resp.keys
        /\ ~({"data", "error"} \subseteq resp.keys)

\* C8: a dispense response carries user_data exactly when the decision is
\* approved with reason 'Customer verified in database', and the payload is
\* phone_number, account_id, full_name, active and credits of the found record,
\* without a pin.
C8_UserDataOnlyWhenVerified ==
    DispenseDone =>
        /\ ("user_data" \in resp.keys) = (resp.approved /\ resp.reason = VerifiedReason)
        /\ ("user_data" \in resp.keys) = (resp.user_data # {})
        /\ \A u \in resp.user_data :
              /\ DOMAIN u = {"phone_number", "account_id", "full_name", "active", "credits"}
              /\ LookupCompleted /\ LastCall.documents # <<>>
              /\ LET record == LastCall.documents[1] IN
                    /\ u.phone_number = record.phone_number
                    /\ u.account_id = get(record.account_id)
                    /\ u.full_name = get(record.full_name)
                    /\ u.active = record.active
                    /\ u.credits = get_default(record.credits, "0")

\* a verified customer whose record has no credits field
C8_Witness ==
    /\ DispenseDone
    /\ "user_data" \in resp.keys
    /\ LastCall.documents[1].credits = "absent"
    /\ \E u \in resp.user_data : u.credits = "0"

\* C9: with a working backend, a request claiming one encoding of a number finds
\* the customer record stored under any encoding of it: the stored value is among
\* the candidates and the lookup ends with that record.
C9_EveryEncodingFound ==
    (LookupCompleted /\ req.user_id.v \in Encodings(National)) =>
        \A s \in Encodings(National) :
            stored = {s} =>
                /\ \E i \in 1 .. Len(variants) : variants[i] = s
                /\ LastCall.documents # <<>>
                /\ LastCall.documents[1].phone_number = s

RECURSIVE Count(_, _)
\* the occurrences of token x in the sequence s
Count(s, x) ==
    IF Len(s) = 0 THEN 0 ELSE (IF Head(s) = x THEN 1 ELSE 0) + Count(Tail(s), x)

\* C10: /database/query requests the URL the customer lookup requests for the
\* same database, collection and filter, and the version segment of the default
\* endpoint appears once in it.
C10_SameUrl ==
    (route = "query" /\ pc = "done" /\ Len(calls) = 1) =>
        /\ \A v \in Encodings(National) :
              ( /\ database_of(req) = APPWRITE_DATABASE_ID
                /\ req.f.collection.v = CUSTOMERS_COLLECTION_ID
                /\ req.f.queries = <<StrFilter(lookup_filter(v))>> ) =>
                    calls[1].url = lookup_url(v)
        /\ endpoint = DefaultEndpoint => Count(calls[1].url, "/v1") = 1

====
